---- MODULE Spec2Model ----
(***************************************************************************)
(* Model of libzmix/bulletproofs_amcl/src/r1cs/gadgets/                    *)
(* pairing_plus_wrapper.rs: the bridge between pairing_plus scalars and    *)
(* points and their amcl_wrapper counterparts, and the two wrappers        *)
(* gen_rangeproof / verify_rangeproof around the bounded-number gadget.    *)
(*                                                                         *)
(* Machine integers are kept at their width.  A u64 is the function        *)
(* [0..7 -> 0..255] of its base-256 digits, digit 0 least significant, so  *)
(* that 64-bit values (2^64 - 1, 2^63) are representable; a natural number *)
(* of any size is the function of its base-256 digits.                     *)
(***************************************************************************)
EXTENDS Integers, Sequences

VARIABLES
    overflow_checks, \* build flag: TRUE = arithmetic overflow panics (debug)
    genIn,           \* arguments of the gen_rangeproof call
    genOut,          \* what that call returned
    gadgetGen,       \* the gen_proof_of_bounded_num call it made, if any
    genSteps,        \* the steps that call executed, in order
    verIn,           \* arguments of the verify_rangeproof call, but for bp = genOut.bp
    verOut,          \* what that call returned
    gadgetVer,       \* the verify_proof_of_bounded_num call it made, if any
    frIn,            \* argument of the pp_fr_to_amcl_fieldelement call
    frBytes,         \* the 48-byte buffer that call built
    frOut            \* the FieldElement it returned

vars == <<overflow_checks, genIn, genOut, gadgetGen, genSteps,
          verIn, verOut, gadgetVer, frIn, frBytes, frOut>>

----------------------------------------------------------------------------
(* Program constants *)

U64_BITS == 64          \* width of u64, the `64 -` of max_bits_in_val
U64_BYTES == 8          \* u64::to_be_bytes yields [u8; 8]
FR_LIMBS == 4           \* limbs of FrRepr
BUF_LEN == 48           \* let mut bytes: [u8; 48]
FR_OFFSET == 16         \* bytes[i * 8 + j + 16]
N_GENERATORS == 128     \* get_generators("G", 128)

(* Bounds of the model *)

GroupOrder == 3         \* order of the stand-in group Z_q for G1
NumSeeds == 0           \* gadget randomness: seeds 0..NumSeeds

----------------------------------------------------------------------------
(* u64 arithmetic on base-256 digits *)

Pow2(n) == IF n = 0 THEN 1 ELSE IF n = 1 THEN 2 ELSE IF n = 2 THEN 4
           ELSE IF n = 3 THEN 8 ELSE IF n = 4 THEN 16 ELSE IF n = 5 THEN 32
           ELSE IF n = 6 THEN 64 ELSE 128

\* the u64 with numeric value n, for 0 <= n < 2^31
U64Of(n) == [i \in 0..(U64_BYTES - 1) |->
                IF i = 0 THEN n % 256
                ELSE IF i = 1 THEN (n \div 256) % 256
                ELSE IF i = 2 THEN (n \div 65536) % 256
                ELSE IF i = 3 THEN (n \div 16777216) % 256
                ELSE 0]

U64Zero == U64Of(0)
U64Max == [i \in 0..(U64_BYTES - 1) |-> 255]
U64TopBit == [i \in 0..(U64_BYTES - 1) |-> IF i = 7 THEN 128 ELSE 0]
\* 2^32 + 42
U64Above32 == [i \in 0..(U64_BYTES - 1) |-> IF i = 0 THEN 42 ELSE IF i = 4 THEN 1 ELSE 0]

\* x > 0 on u64
U64Gt0(x) == \E i \in 0..(U64_BYTES - 1) : x[i] > 0

U64Lt(a, b) == \E i \in 0..(U64_BYTES - 1) :
                  /\ a[i] < b[i]
                  /\ \A j \in (i + 1)..(U64_BYTES - 1) : a[j] = b[j]

U64Le(a, b) == a = b \/ U64Lt(a, b)

RECURSIVE SubDigits(_, _, _, _, _)
\* digits i.. of a - b, given the borrow into digit i and the digits below
SubDigits(a, b, i, borrow, acc) ==
    IF i = U64_BYTES THEN acc
    ELSE LET d == a[i] - b[i] - borrow
         IN SubDigits(a, b, i + 1, IF d < 0 THEN 1 ELSE 0,
                      [acc EXCEPT ![i] = (d + 256) % 256])

\* a - b modulo 2^64
U64WrappingSub(a, b) == SubDigits(a, b, 0, 0, [i \in 0..(U64_BYTES - 1) |-> 0])

\* bit k of x, bit 0 least significant
Bit(x, k) == (x[k \div 8] \div Pow2(k % 8)) % 2

RECURSIVE ZerosFrom(_, _)
\* the number of consecutive zero bits of x from bit k downwards
ZerosFrom(x, k) == IF k < 0 THEN 0
                   ELSE IF Bit(x, k) = 1 THEN 0
                   ELSE 1 + ZerosFrom(x, k - 1)

leading_zeros(x) == ZerosFrom(x, U64_BITS - 1)

\* mutant: the bytes in little-endian order
to_le_bytes(x) == [j \in 0..(U64_BYTES - 1) |-> x[j]]

to_be_bytes(x) == [j \in 0..(U64_BYTES - 1) |-> x[U64_BYTES - 1 - j]]

----------------------------------------------------------------------------
(* Scalars.  An Fr is modelled by its canonical FrRepr: four u64 limbs,    *)
(* least significant first, of a value below the modulus r.                *)

FrOf(l0, l1, l2, l3) == [k \in 0..(FR_LIMBS - 1) |->
                            IF k = 0 THEN l0 ELSE IF k = 1 THEN l1
                            ELSE IF k = 2 THEN l2 ELSE l3]

into_repr(fr) == fr

\* base-256 digit p of the numeric value sum(limb[k] * 2^(64k)) of a scalar
ScalarDigit(fr, p) == fr[p \div U64_BYTES][p % U64_BYTES]

\* FieldElement::from_bytes: the big-endian buffer parsed as a number (its
\* digits, least significant first).  Reduction modulo the curve order is
\* the identity on the canonical scalars the bridge is given.
FieldElementFromBytes(bytes) == [p \in 0..(BUF_LEN - 1) |-> bytes[BUF_LEN - 1 - p]]

\* the index written by `bytes[i * 8 + j + 16] = tmp[j]`
BufferIndex(i, j) == i * U64_BYTES + j + FR_OFFSET

\* mutant: the limbs taken in storage order, u64_array[i]
LimbOfPassForward(u64_array, i) == u64_array[i]

\* the limb whose bytes pass i of the loop writes: u64_array[3 - i]
LimbOfPass(u64_array, i) == u64_array[FR_LIMBS - 1 - i]

RECURSIVE FillBuffer(_, _, _)
\* the two nested loops, from pass k = i * 8 + j on: bytes[i*8 + j + 16] = tmp[j]
FillBuffer(u64_array, k, bytes) ==
    IF k = FR_LIMBS * U64_BYTES THEN bytes
    ELSE LET i == k \div U64_BYTES
             j == k % U64_BYTES
             tmp == to_be_bytes(LimbOfPass(u64_array, i))
         IN FillBuffer(u64_array, k + 1, [bytes EXCEPT ![BufferIndex(i, j)] = tmp[j]])

\* the [u8; 48] buffer handed to FieldElement::from_bytes
FrBuffer(fr) == FillBuffer(into_repr(fr), 0, [n \in 0..(BUF_LEN - 1) |-> 0])

pp_fr_to_amcl_fieldelement(fr) == FieldElementFromBytes(FrBuffer(fr))

----------------------------------------------------------------------------
(* Points.  G1 is modelled by a stand-in cyclic group Z_q, q = GroupOrder; *)
(* a point is the library that holds it and the group element it denotes.  *)

GroupElems == 0..(GroupOrder - 1)

PpG1(e) == [lib |-> "pairing_plus", e |-> e]

\* affine coordinates -> two BIGs -> ECP -> 97 bytes -> amcl G1: the same
\* group element, held by amcl_wrapper
pp_g1_to_amcl_g1(g1) == [lib |-> "amcl", e |-> g1.e]

get_generators(prefix, n) == [prefix |-> prefix, n |-> n]

----------------------------------------------------------------------------
(* The bounded-number gadget (r1cs/gadgets/bound_check.rs), an idealised   *)
(* proof system: a proof records the statement it was built for and        *)
(* whether that statement is true, and verifies exactly against it.        *)

RECURSIVE DigitsModQ(_, _, _)
\* the number with base-256 digits d[k..len-1] (d[k] least significant), mod q
DigitsModQ(d, k, len) == IF k >= len THEN 0
                         ELSE (d[k] + 256 * DigitsModQ(d, k + 1, len)) % GroupOrder

\* Pedersen commitment v*g + r*h in Z_q
Commit(v, r, g, h) == [lib |-> "amcl", e |-> (v * g.e + r * h.e) % GroupOrder]

\* x < 2^n
FitsIn(x, n) == \A k \in n..(U64_BITS - 1) : Bit(x, k) = 0

GadgetErr == [kind |-> "Err"]

gen_proof_of_bounded_num(val, randomness, lower, upper, max_bits_in_val, transcript_label, g, h, G, H, fails, seed) ==
    LET a == U64WrappingSub(val, lower)
        b == U64WrappingSub(upper, val)
        com_v == Commit(DigitsModQ(val, 0, U64_BYTES),
                        DigitsModQ(randomness, 0, BUF_LEN), g, h)
        com_min == Commit(DigitsModQ(a, 0, U64_BYTES), seed, g, h)
        com_max == Commit(DigitsModQ(b, 0, U64_BYTES), (seed + 1) % GroupOrder, g, h)
        holds == /\ U64Le(lower, val) /\ U64Le(val, upper)
                 /\ FitsIn(a, max_bits_in_val)
                 /\ FitsIn(b, max_bits_in_val)
        proof == [holds |-> holds, lower |-> lower, upper |-> upper,
                  bits |-> max_bits_in_val, label |-> transcript_label,
                  g |-> g, h |-> h, G |-> G, H |-> H,
                  coms |-> <<com_v, com_min, com_max>>]
    IN IF ~holds /\ fails THEN GadgetErr
       ELSE [kind |-> "Ok", proof |-> proof, com_v |-> com_v,
             com_min |-> com_min, com_max |-> com_max]

verify_proof_of_bounded_num(lower, upper, max_bits_in_val, proof, commitments, transcript_label, g, h, G, H) ==
    IF /\ proof.holds
       /\ proof.lower = lower /\ proof.upper = upper
       /\ proof.bits = max_bits_in_val /\ proof.label = transcript_label
       /\ proof.g = g /\ proof.h = h /\ proof.G = G /\ proof.H = H
       /\ proof.coms = commitments
    THEN [kind |-> "Ok"] ELSE GadgetErr

----------------------------------------------------------------------------
(* gen_rangeproof *)

NoCall == [called |-> FALSE]
NoResult == [kind |-> "None"]
Panic == [kind |-> "Panic"]
Err(e) == [kind |-> "Err", err |-> e]

\* `upper - lower` on u64 overflows
SubOverflows(upper, lower) == U64Lt(upper, lower)

\* mutant: the difference truncated to 32 bits before counting
GenMaxBitsInVal32(lower, upper) == 32 - ZerosFrom(U64WrappingSub(upper, lower), 31)

\* line 80: (64 - (upper - lower).leading_zeros()).try_into().unwrap()
GenMaxBitsInVal(lower, upper) == U64_BITS - leading_zeros(U64WrappingSub(upper, lower))

\* mutant: the top limb is not looked at
ValOverflowsLow(val_ref) == U64Gt0(val_ref[1]) \/ U64Gt0(val_ref[2])

\* line 84: val_ref[1] > 0 || val_ref[2] > 0 || val_ref[3] > 0
ValOverflows(val_ref) == U64Gt0(val_ref[1]) \/ U64Gt0(val_ref[2]) \/ U64Gt0(val_ref[3])

\* mutant: the commitments are not compared
CommitmentsEqualAlways(c, com_v) == TRUE

\* line 110: c == com_v
CommitmentsEqual(c, com_v) == c = com_v

\* mutant: the two error arms exchanged
GenMatchSwapped(ret, c) ==
    IF ret.kind = "Ok"
    THEN IF c = ret.com_v
         THEN [kind |-> "Ok",
               bp |-> [proof |-> ret.proof, commitments |-> <<ret.com_min, ret.com_max>>]]
         ELSE Err("InvalidProof")
    ELSE Err("InvalidCommitment")

\* lines 108-119: the match on the gadget's result
GenMatch(ret, c) ==
    IF ret.kind = "Ok"
    THEN IF CommitmentsEqual(c, ret.com_v)
         THEN [kind |-> "Ok",
               bp |-> [proof |-> ret.proof, commitments |-> <<ret.com_min, ret.com_max>>]]
         ELSE Err("InvalidCommitment")
    ELSE Err("InvalidProof")

\* the steps of a call that reached the match, in execution order
GenMatchSteps(ret) ==
    IF ret.kind = "Ok"
    THEN <<"max_bits", "overflow_check", "bridge", "gadget", "commitment_check">>
    ELSE <<"max_bits", "overflow_check", "bridge", "gadget">>

\* mutant: the commitment is recomputed from val, blinding, g, h and compared
\* before the gadget is called
gen_rangeproof_early(val, blinding, lower, upper, transcript_label, g, h, c, checks, fails, seed) ==
    IF U64Lt(upper, lower) /\ checks
    THEN [out |-> [kind |-> "Panic"], gadget |-> [called |-> FALSE], steps |-> <<"max_bits">>]
    ELSE
    LET G == get_generators("G", N_GENERATORS)
        H == get_generators("H", N_GENERATORS)
        max_bits_in_val == U64_BITS - leading_zeros(U64WrappingSub(upper, lower))
        val_ref == into_repr(val)
    IN IF U64Gt0(val_ref[1]) \/ U64Gt0(val_ref[2]) \/ U64Gt0(val_ref[3])
       THEN [out |-> [kind |-> "Err", err |-> "ValOverflow"], gadget |-> [called |-> FALSE],
             steps |-> <<"max_bits", "overflow_check">>]
       ELSE
       LET val64 == val_ref[0]
           blindingB == pp_fr_to_amcl_fieldelement(blinding)
           gB == pp_g1_to_amcl_g1(g)
           hB == pp_g1_to_amcl_g1(h)
           cB == pp_g1_to_amcl_g1(c)
           expected == Commit(DigitsModQ(val64, 0, U64_BYTES),
                              DigitsModQ(blindingB, 0, BUF_LEN), gB, hB)
           ret == gen_proof_of_bounded_num(val64, blindingB, lower, upper,
                      max_bits_in_val, transcript_label, gB, hB, G, H, fails, seed)
       IN IF cB # expected
          THEN [out |-> [kind |-> "Err", err |-> "InvalidCommitment"],
                gadget |-> [called |-> FALSE],
                steps |-> <<"max_bits", "overflow_check", "bridge", "commitment_check">>]
          ELSE [out |-> IF ret.kind = "Ok"
                        THEN [kind |-> "Ok",
                              bp |-> [proof |-> ret.proof,
                                      commitments |-> <<ret.com_min, ret.com_max>>]]
                        ELSE [kind |-> "Err", err |-> "InvalidProof"],
                gadget |-> [called |-> TRUE, val |-> val64, randomness |-> blindingB,
                            lower |-> lower, upper |-> upper, bits |-> max_bits_in_val,
                            label |-> transcript_label, g |-> gB, h |-> hB,
                            G |-> G, H |-> H, c |-> cB, ret |-> ret],
                steps |-> <<"max_bits", "overflow_check", "bridge", "commitment_check", "gadget">>]

\* The whole function: what it returns, the gadget call it made and the
\* steps it ran.  fails and seed are the gadget's own choices.
gen_rangeproof(val, blinding, lower, upper, transcript_label, g, h, c, checks, fails, seed) ==
    IF SubOverflows(upper, lower) /\ checks
    THEN [out |-> Panic, gadget |-> NoCall, steps |-> <<"max_bits">>]
    ELSE
    LET G == get_generators("G", N_GENERATORS)
        H == get_generators("H", N_GENERATORS)
        max_bits_in_val == GenMaxBitsInVal(lower, upper)
        val_ref == into_repr(val)
    IN IF ValOverflows(val_ref)
       THEN [out |-> Err("ValOverflow"), gadget |-> NoCall,
             steps |-> <<"max_bits", "overflow_check">>]
       ELSE
       LET val64 == val_ref[0]
           blindingB == pp_fr_to_amcl_fieldelement(blinding)
           gB == pp_g1_to_amcl_g1(g)
           hB == pp_g1_to_amcl_g1(h)
           cB == pp_g1_to_amcl_g1(c)
           ret == gen_proof_of_bounded_num(val64, blindingB, lower, upper,
                      max_bits_in_val, transcript_label, gB, hB, G, H, fails, seed)
       IN [out |-> GenMatch(ret, cB),
           gadget |-> [called |-> TRUE, val |-> val64, randomness |-> blindingB,
                       lower |-> lower, upper |-> upper, bits |-> max_bits_in_val,
                       label |-> transcript_label, g |-> gB, h |-> hB,
                       G |-> G, H |-> H, c |-> cB, ret |-> ret],
           steps |-> GenMatchSteps(ret)]

----------------------------------------------------------------------------
(* verify_rangeproof *)

\* mutant: a zero-width range widened to one bit
VerifyMaxBitsAtLeastOne(lower, upper) ==
    IF upper = lower THEN 1
    ELSE U64_BITS - leading_zeros(U64WrappingSub(upper, lower))

\* line 137
VerifyMaxBitsInVal(lower, upper) == U64_BITS - leading_zeros(U64WrappingSub(upper, lower))

\* mutant: the two auxiliary commitments exchanged
VerifyCommitmentsSwapped(c, bp) == <<c, bp.commitments[2], bp.commitments[1]>>

\* line 144: &(c, bp.commitments)
VerifyCommitments(c, bp) == <<c, bp.commitments[1], bp.commitments[2]>>

\* mutant: a rejection reported as InvalidCommitment
VerifyMatchInvalidCommitment(ret) ==
    IF ret.kind = "Ok" THEN [kind |-> "Ok"] ELSE [kind |-> "Err", err |-> "InvalidCommitment"]

\* lines 157-160: the match on the gadget's result
VerifyMatch(ret) == IF ret.kind = "Ok" THEN [kind |-> "Ok"] ELSE Err("VerificationError")

verify_rangeproof(bp, lower, upper, transcript_label, g, h, c, checks) ==
    IF SubOverflows(upper, lower) /\ checks
    THEN [out |-> Panic, gadget |-> NoCall]
    ELSE
    LET G == get_generators("G", N_GENERATORS)
        H == get_generators("H", N_GENERATORS)
        max_bits_in_val == VerifyMaxBitsInVal(lower, upper)
        gB == pp_g1_to_amcl_g1(g)
        hB == pp_g1_to_amcl_g1(h)
        cB == pp_g1_to_amcl_g1(c)
        commitments == VerifyCommitments(cB, bp)
        ret == verify_proof_of_bounded_num(lower, upper, max_bits_in_val, bp.proof,
                   commitments, transcript_label, gB, hB, G, H)
    IN [out |-> VerifyMatch(ret),
        gadget |-> [called |-> TRUE, lower |-> lower, upper |-> upper,
                    bits |-> max_bits_in_val, proof |-> bp.proof,
                    commitments |-> commitments, label |-> transcript_label,
                    g |-> gB, h |-> hB, G |-> G, H |-> H, ret |-> ret]]

----------------------------------------------------------------------------
(* Inputs *)

\* the modulus r of Fr, as an FrRepr
FrModulus == FrOf(<<1, 0, 0, 0, 255, 255, 255, 255>>,
                  <<254, 91, 254, 255, 2, 164, 189, 83>>,
                  <<5, 216, 161, 9, 8, 216, 57, 51>>,
                  <<72, 125, 157, 41, 83, 167, 237, 115>>)

\* the limbs above are written as tuples (index 1..8); as u64 digits 0..7
Limb(t) == [i \in 0..(U64_BYTES - 1) |-> t[i + 1]]

\* fr < r: every Fr holds a canonical value
InField(fr) ==
    \E p \in 0..(FR_LIMBS * U64_BYTES - 1) :
       /\ ScalarDigit(fr, p) < Limb(FrModulus[p \div U64_BYTES])[p % U64_BYTES]
       /\ \A o \in (p + 1)..(FR_LIMBS * U64_BYTES - 1) :
             ScalarDigit(fr, o) = Limb(FrModulus[o \div U64_BYTES])[o % U64_BYTES]

\* a u64 whose eight bytes all differ: byte i is base + i
U64Pattern(base) == [i \in 0..(U64_BYTES - 1) |-> base + i]

Small(n) == FrOf(U64Of(n), U64Zero, U64Zero, U64Zero)

ValScalars == {fr \in {Small(0), Small(42),
                       FrOf(U64Max, U64Zero, U64Zero, U64Zero),
                       FrOf(U64Of(42), U64Of(1), U64Zero, U64Zero),
                       FrOf(U64Of(42), U64Zero, U64TopBit, U64Zero),
                       FrOf(U64Zero, U64Zero, U64Zero, U64Of(1)),
                       FrOf(U64Max, U64Max, U64Max, U64Max)} : InField(fr)}

BlindingScalars == {fr \in {Small(7),
                            FrOf(U64Pattern(1), U64Pattern(9),
                                 U64Pattern(17), U64Pattern(25))} : InField(fr)}

Lowers == {U64Of(0), U64Of(42)}
Uppers == {U64Of(40), U64Of(42), U64Of(255), U64Of(1000), U64Above32, U64Max}
Labels == {"rangeproof", "other"}
GPoints == {PpG1(1), PpG1(2)}
HPoints == {PpG1(2)}
CPoints == {PpG1(e) : e \in GroupElems}
Seeds == 0..NumSeeds

BridgeLimbs == {U64Zero, U64Of(1), U64Pattern(1), U64Pattern(100), U64Max}
BridgeScalars == {fr \in {FrOf(l0, l1, l2, l3) :
                             l0 \in BridgeLimbs, l1 \in BridgeLimbs,
                             l2 \in BridgeLimbs, l3 \in BridgeLimbs} : InField(fr)}

----------------------------------------------------------------------------
(* The state machine *)

\* Each behaviour is one exchange: the prover's arguments are drawn here,
\* gen_rangeproof is applied to them, and the verifier checks the result.
Init ==
    /\ overflow_checks \in BOOLEAN
    /\ genIn \in [val : ValScalars, blinding : BlindingScalars,
                  lower : Lowers, upper : Uppers, label : Labels,
                  g : GPoints, h : HPoints, c : CPoints]
    /\ genOut = NoResult
    /\ gadgetGen = NoCall
    /\ genSteps = <<>>
    /\ verIn = NoCall
    /\ verOut = NoResult
    /\ gadgetVer = NoCall
    /\ frIn = NoCall
    /\ frBytes = NoCall
    /\ frOut = NoCall

\* The prover calls gen_rangeproof.
GenRangeproof ==
    /\ genOut = NoResult
    /\ \E fails \in BOOLEAN, seed \in Seeds :
          \E r \in {gen_rangeproof(genIn.val, genIn.blinding, genIn.lower,
                                  genIn.upper, genIn.label, genIn.g, genIn.h,
                                  genIn.c, overflow_checks, fails, seed)} :
             /\ genOut' = r.out
             /\ gadgetGen' = r.gadget
             /\ genSteps' = r.steps
    /\ UNCHANGED <<overflow_checks, genIn, verIn, verOut, gadgetVer,
                   frIn, frBytes, frOut>>

\* The verifier calls verify_rangeproof on the Bulletproof the prover returned.
VerifyRangeproof ==
    /\ genOut.kind = "Ok"
    /\ verOut = NoResult
    /\ \E lower \in Lowers, upper \in Uppers, label \in Labels,
          g \in GPoints, h \in HPoints, c \in CPoints :
          \E r \in {verify_rangeproof(genOut.bp, lower, upper, label, g, h, c,
                                     overflow_checks)} :
             /\ verIn' = [called |-> TRUE, lower |-> lower, upper |-> upper,
                          label |-> label, g |-> g, h |-> h, c |-> c]
             /\ verOut' = r.out
             /\ gadgetVer' = r.gadget
    /\ UNCHANGED <<overflow_checks, genIn, genOut, gadgetGen, genSteps,
                   frIn, frBytes, frOut>>

\* The scalar bridge on its own: the argument is drawn here.
InitBridge ==
    /\ overflow_checks \in BOOLEAN
    /\ genIn = NoCall
    /\ genOut = NoResult
    /\ gadgetGen = NoCall
    /\ genSteps = <<>>
    /\ verIn = NoCall
    /\ verOut = NoResult
    /\ gadgetVer = NoCall
    /\ frIn \in [called : {TRUE}, fr : BridgeScalars]
    /\ frBytes = NoCall
    /\ frOut = NoCall

PpFrToAmclFieldelement ==
    /\ frOut = NoCall
    /\ frBytes' = FrBuffer(frIn.fr)
    /\ frOut' = [called |-> TRUE, value |-> pp_fr_to_amcl_fieldelement(frIn.fr)]
    /\ UNCHANGED <<overflow_checks, genIn, genOut, gadgetGen, genSteps,
                   verIn, verOut, gadgetVer, frIn>>

Next == GenRangeproof \/ VerifyRangeproof

Spec == Init /\ [][Next]_vars

NextBridge == PpFrToAmclFieldelement

SpecBridge == InitBridge /\ [][NextBridge]_vars

----------------------------------------------------------------------------
(* Properties *)

\* the call returned a value (it did not abort)
Returned(out) == out.kind \in {"Ok", "Err"}

\* the 64-bit value gen_rangeproof was given, when it fits
GenVal64 == genIn.val[0]

\* the numeric value of the scalar is at least 2^64
AtLeast2Pow64(fr) ==
    \E p \in U64_BYTES..(FR_LIMBS * U64_BYTES - 1) : ScalarDigit(fr, p) # 0

\* n is the number of bits needed to write x: x < 2^n, and 2^(n-1) <= x if n > 0
IsBitLength(x, n) ==
    /\ n \in 0..U64_BITS
    /\ \A k \in n..(U64_BITS - 1) : Bit(x, k) = 0
    /\ n > 0 => Bit(x, n - 1) = 1

\* the position of step x in a sequence of steps, 0 when it is absent
StepPos(steps, x) ==
    IF \E i \in 1..Len(steps) : steps[i] = x
    THEN CHOOSE i \in 1..Len(steps) : steps[i] = x
    ELSE 0

\* C1: when the gadget succeeds and returns (proof, (com_v, [com_min,
\* com_max])), gen_rangeproof returns a Bulletproof if and only if the
\* bridged external commitment c equals com_v; when they differ it returns
\* Err(InvalidCommitment); a returned Bulletproof holds the gadget's proof
\* and [com_min, com_max].
C1_CommitmentBinding ==
    (gadgetGen.called /\ gadgetGen.ret.kind = "Ok") =>
        LET cB == pp_g1_to_amcl_g1(genIn.c)
            ret == gadgetGen.ret
        IN /\ (genOut.kind = "Ok") <=> (cB = ret.com_v)
           /\ cB # ret.com_v => genOut = Err("InvalidCommitment")
           /\ genOut.kind = "Ok" =>
                 genOut.bp = [proof |-> ret.proof,
                              commitments |-> <<ret.com_min, ret.com_max>>]

C1_Witness ==
    /\ gadgetGen.called /\ gadgetGen.ret.kind = "Ok"
    /\ gadgetGen.ret.proof.holds
    /\ pp_g1_to_amcl_g1(genIn.c) # gadgetGen.ret.com_v
    /\ genOut = Err("InvalidCommitment")

C3_GeneratorErrorMapping ==
    (Returned(genOut) /\ ~AtLeast2Pow64(genIn.val)) =>
        /\ gadgetGen.called
        /\ (genOut = Err("InvalidProof")) <=> (gadgetGen.ret.kind = "Err")
        /\ gadgetGen.ret.kind = "Err" =>
              /\ genOut.kind # "Ok"
              /\ genOut # Err("InvalidCommitment")
              /\ genOut # Err("ValOverflow")

C3_Witness ==
    /\ gadgetGen.called /\ gadgetGen.ret.kind = "Err"
    /\ pp_g1_to_amcl_g1(genIn.c) #
          Commit(DigitsModQ(GenVal64, 0, U64_BYTES),
                 DigitsModQ(gadgetGen.randomness, 0, BUF_LEN),
                 gadgetGen.g, gadgetGen.h)
    /\ genOut = Err("InvalidProof")

\* C4: a verify_rangeproof call that returns gives Ok(()) exactly when
\* verify_proof_of_bounded_num accepts and Err(VerificationError) exactly
\* when it rejects; it never gives InvalidCommitment: the bridged external
\* commitment goes to the gadget as it is, and a mismatch with the proof's
\* commitment that fails fails as VerificationError.
C4_VerifierOutcomeMapping ==
    /\ verOut # Err("InvalidCommitment")
    /\ Returned(verOut) =>
          /\ gadgetVer.called
          /\ gadgetVer.commitments[1] = pp_g1_to_amcl_g1(verIn.c)
          /\ (verOut = [kind |-> "Ok"]) <=> (gadgetVer.ret.kind = "Ok")
          /\ (verOut = Err("VerificationError")) <=> (gadgetVer.ret.kind = "Err")
          /\ (pp_g1_to_amcl_g1(verIn.c) # gadgetGen.ret.com_v /\ verOut.kind = "Err")
                => verOut = Err("VerificationError")

C4_Witness ==
    /\ Returned(verOut)
    /\ gadgetGen.ret.proof.holds
    /\ verIn.lower = genIn.lower /\ verIn.upper = genIn.upper
    /\ verIn.label = genIn.label /\ verIn.g = genIn.g /\ verIn.h = genIn.h
    /\ verIn.c # genIn.c
    /\ gadgetVer.ret.kind = "Err"
    /\ verOut = Err("VerificationError")

\* the verifier was given the prover's parameters, but for (possibly) upper
SameButUpper ==
    /\ verIn.lower = genIn.lower /\ verIn.label = genIn.label
    /\ verIn.g = genIn.g /\ verIn.h = genIn.h /\ verIn.c = genIn.c

\* C5: when gen_rangeproof returned Ok(bp) for a value inside
\* [lower, upper], verify_rangeproof on bp with the same parameters returns
\* Ok(()); with the same parameters but an upper bound below the value it
\* returns Err(VerificationError).
C5_EndToEnd ==
    (/\ verOut # NoResult
     /\ genOut.kind = "Ok"
     /\ U64Le(genIn.lower, GenVal64) /\ U64Le(GenVal64, genIn.upper)
     /\ SameButUpper) =>
        /\ verIn.upper = genIn.upper => verOut = [kind |-> "Ok"]
        /\ (U64Lt(verIn.upper, GenVal64) /\ U64Le(verIn.lower, verIn.upper))
              => verOut = Err("VerificationError")

C5_Witness ==
    /\ verOut # NoResult
    /\ genOut.kind = "Ok"
    /\ genIn.lower = U64Of(0) /\ genIn.upper = U64Of(1000)
    /\ GenVal64 = U64Of(42)
    /\ SameButUpper /\ verIn.upper = genIn.upper
    /\ verOut = [kind |-> "Ok"]

\* C6: for lower <= upper, gen_rangeproof and verify_rangeproof pass the
\* gadget the number of bits needed to write upper - lower, the same width
\* for the same pair; for (lower = 0, upper = 255) it is 8.
C6_BitWidth ==
    /\ (gadgetGen.called /\ U64Le(genIn.lower, genIn.upper)) =>
          /\ IsBitLength(U64WrappingSub(genIn.upper, genIn.lower), gadgetGen.bits)
          /\ (genIn.lower = U64Of(0) /\ genIn.upper = U64Of(255)) => gadgetGen.bits = 8
    /\ (gadgetVer.called /\ U64Le(verIn.lower, verIn.upper)) =>
          /\ IsBitLength(U64WrappingSub(verIn.upper, verIn.lower), gadgetVer.bits)
          /\ (verIn.lower = U64Of(0) /\ verIn.upper = U64Of(255)) => gadgetVer.bits = 8
          /\ (verIn.lower = genIn.lower /\ verIn.upper = genIn.upper)
                => gadgetVer.bits = gadgetGen.bits

C6_Witness ==
    /\ gadgetGen.called /\ gadgetVer.called
    /\ genIn.lower = U64Of(0) /\ genIn.upper = U64Of(255)
    /\ verIn.lower = U64Of(0) /\ verIn.upper = U64Of(255)
    /\ gadgetGen.bits = 8 /\ gadgetVer.bits = 8

\* digit p (weight 256^p) of the buffer read as a big-endian integer
BigEndianDigit(bytes, p) == bytes[BUF_LEN - 1 - p]

\* C7: the 48-byte buffer pp_fr_to_amcl_fieldelement builds has bytes 0..15
\* zero and bytes 16+8i .. 23+8i equal to limb 3-i in big-endian order, so
\* read as a big-endian integer it is the scalar's value
\* sum(limb[k] * 2^(64k)); the FieldElement returned holds that value.
C7_ScalarBridgeLayout ==
    frOut # NoCall =>
        /\ \A n \in 0..15 : frBytes[n] = 0
        /\ \A i \in 0..3 : \A j \in 0..7 :
              frBytes[16 + 8 * i + j] = frIn.fr[3 - i][7 - j]
        /\ \A p \in 0..(BUF_LEN - 1) :
              /\ BigEndianDigit(frBytes, p) =
                    IF p < FR_LIMBS * U64_BYTES THEN ScalarDigit(frIn.fr, p) ELSE 0
              /\ frOut.value[p] = BigEndianDigit(frBytes, p)

C7_Witness ==
    /\ frOut # NoCall
    /\ frIn.fr = FrOf(U64Pattern(1), U64Of(1), U64Max, U64Pattern(100))
    /\ frBytes[16] = 107 /\ frBytes[47] = 1

\* bridge_B_to_A for scalars: the FieldElement's value written back as four
\* 64-bit limbs, least significant first
FieldElementToFr(fe) ==
    [k \in 0..(FR_LIMBS - 1) |-> [i \in 0..(U64_BYTES - 1) |-> fe[U64_BYTES * k + i]]]

\* C8: for every scalar x of the field, converting x to representation B
\* and back yields x.
C8_ScalarRoundTrip ==
    frOut # NoCall => FieldElementToFr(frOut.value) = frIn.fr

C8_Witness ==
    /\ frOut # NoCall
    /\ frIn.fr = FrOf(U64Max, U64Pattern(100), U64Pattern(1), U64Of(1))
    /\ FieldElementToFr(frOut.value) = frIn.fr

\* C9 as claimed: a call that ends in InvalidCommitment has not run the
\* gadget's gen_proof_of_bounded_num to completion.
C9_CheckBeforeGadget ==
    genOut = Err("InvalidCommitment") =>
        (~gadgetGen.called /\ StepPos(genSteps, "gadget") = 0)

\* C9 as amended: a call that ends in InvalidCommitment has run
\* gen_proof_of_bounded_num to completion, successfully, and compared the
\* commitments after it.
C9_CheckAfterGadget ==
    genOut = Err("InvalidCommitment") =>
        /\ gadgetGen.called
        /\ gadgetGen.ret.kind = "Ok"
        /\ StepPos(genSteps, "gadget") > 0
        /\ StepPos(genSteps, "gadget") < StepPos(genSteps, "commitment_check")

C9_Witness ==
    /\ genOut = Err("InvalidCommitment")
    /\ gadgetGen.called
    /\ genSteps = <<"max_bits", "overflow_check", "bridge", "gadget", "commitment_check">>

\* C10: a call with upper = lower is not rejected or special-cased: both
\* functions return, computing max_bits_in_val = 0 and invoking the gadget
\* with bit width 0 and the bounds as given, and the outcome follows the
\* gadget's.
C10_ZeroWidthRange ==
    /\ (genOut # NoResult /\ genIn.upper = genIn.lower /\ ~AtLeast2Pow64(genIn.val)) =>
          /\ Returned(genOut)
          /\ gadgetGen.called
          /\ gadgetGen.bits = 0
          /\ gadgetGen.lower = genIn.lower /\ gadgetGen.upper = genIn.upper
          /\ gadgetGen.ret.kind = "Err" <=> genOut = Err("InvalidProof")
          /\ genOut.kind = "Ok" => genOut.bp.proof = gadgetGen.ret.proof
    /\ (verOut # NoResult /\ verIn.upper = verIn.lower) =>
          /\ Returned(verOut)
          /\ gadgetVer.called
          /\ gadgetVer.bits = 0
          /\ gadgetVer.lower = verIn.lower /\ gadgetVer.upper = verIn.upper
          /\ gadgetVer.ret.kind = "Ok" <=> verOut = [kind |-> "Ok"]

C10_Witness ==
    /\ genIn.upper = genIn.lower /\ genIn.lower = U64Of(42)
    /\ gadgetGen.called /\ gadgetGen.bits = 0
    /\ verIn.called /\ verIn.upper = verIn.lower /\ verIn.lower = U64Of(42)
    /\ gadgetVer.called /\ gadgetVer.bits = 0
    /\ verOut = [kind |-> "Ok"]

====
